---- MODULE Spec2Model ----
(***************************************************************************)
(* ReaderTask<R, A> = (r: R) => Task<A>, Task<A> = () => Promise<A>.       *)
(*                                                                         *)
(* A ReaderTask is a closure; the model keeps each closure as a record     *)
(* holding what the closure captured (op: the combinator that built it).   *)
(* Applying a closure to an environment r (App) runs the combinator's body *)
(* and yields a Task value, again a record (t: the Task primitive that     *)
(* built it).  Invoking a Task (Invoke) creates a promise, kept as a term  *)
(* whose nodes are the pending promises; the collaborator's computations   *)
(* settle one at a time in any order (Settle) and promise reactions fire   *)
(* one at a time (React).  log[i] records, per run, the start ("s") and    *)
(* the completion ("e") of every collaborator computation.                 *)
(***************************************************************************)
EXTENDS Integers, Sequences, FiniteSets, TLC

VARIABLES law, r, prog, inp, pc, task, prom, log

vars == <<law, r, prog, inp, pc, task, prom, log>>

\* ------------------------------------------------------------------------
\* bounds of the inputs
\* ------------------------------------------------------------------------

MaxEnv == 1

MaxVal == 1

MaxLen == 2

Envs == 0 .. MaxEnv

Vals == 0 .. MaxVal

Runs == {1, 2}

RECURSIVE ApplyFn(_, _)
RECURSIVE SumRec(_)
RECURSIVE ApplyK(_, _)
RECURSIVE App(_, _)
RECURSIVE map(_, _, _)
RECURSIVE apW(_, _, _)
RECURSIVE chainW(_, _, _)
RECURSIVE ApplicativeSeq_ap(_, _, _)
RECURSIVE getSemigroup_concat(_, _, _, _)
RECURSIVE traverseArrayWithIndex(_, _, _)
RECURSIVE R_traverseArrayWithIndex(_, _, _)
RECURSIVE Invoke(_)
RECURSIVE InvokeEvents(_)
RECURSIVE ApplyEvents(_)
RECURSIVE Paths(_)
RECURSIVE At(_, _)
RECURSIVE Put(_, _, _)
RECURSIVE Flat(_)
RECURSIVE BindChain(_, _, _)
RECURSIVE ExplicitChain(_, _, _)

\* ------------------------------------------------------------------------
\* pure functions (values of type (a: A) => B), kept as closures
\* ------------------------------------------------------------------------

\* Semigroup / Monoid capabilities on results: sequences under concatenation.
S_concat(S, x, y) == x \o y

SeqMonoid == [name |-> "seq", empty |-> <<>>]

\* Object.assign({}, a, { [name]: b })
bind_(a, name, b) ==
    [n \in (DOMAIN a) \cup {name} |-> IF n = name THEN b ELSE a[n]]

\* (a) => ({ [name]: a })
bindTo_(name, a) == [n \in {name} |-> a]

SumRec(rec) ==
    IF DOMAIN rec = {} THEN 0
    ELSE LET n == CHOOSE m \in DOMAIN rec : TRUE
         IN  rec[n] + SumRec([m \in (DOMAIN rec) \ {n} |-> rec[m]])

ApplyFn(f, x) ==
    CASE f.fn = "add"       -> x + f.n
      [] f.fn = "mkAdd"     -> [fn |-> "add", n |-> x + f.n]
      [] f.fn = "single"    -> <<x + f.n>>
      [] f.fn = "identity"  -> x
      [] f.fn = "bindTo_"   -> bindTo_(f.name, x)
      [] f.fn = "bind_"     -> bind_(f.a, f.name, x)
      [] f.fn = "extend"    -> [n \in (DOMAIN f.a) \cup {f.name} |->
                                   IF n \in DOMAIN f.a THEN f.a[n] ELSE x]
      [] f.fn = "apS"       -> [fn |-> "bind_", a |-> x, name |-> f.name]
      [] f.fn = "tuple"     -> <<x>>
      [] f.fn = "apT"       -> [fn |-> "append", a |-> x]
      [] f.fn = "append"    -> Append(f.a, x)
      [] f.fn = "concatL"   -> S_concat(f.S, f.rx, x)
      [] f.fn = "applyPair" -> ApplyFn(x[1], x[2])

identity == [fn |-> "identity"]

tuple == [fn |-> "tuple"]

\* ------------------------------------------------------------------------
\* the collaborators: Task and Reader
\* ------------------------------------------------------------------------

\* A collaborator-supplied Task: computation number id, resolving to v.
Leaf(id, v) == [t |-> "leaf", id |-> id, v |-> v]

\* A collaborator-supplied IO: computation number id, returning v.
IOLeaf(id, v) == [io |-> id, v |-> v]

\* A Task closing over a promise that was created when the closure was
\* built: invoking it starts nothing.
Started(ta) == [t |-> "started", ta |-> ta]

T_of(a) == [t |-> "of", a |-> a]

T_fromIO(io) == [t |-> "fromIO", io |-> io]

T_map(f, ta) == [t |-> "map", f |-> f, ta |-> ta]

T_ap(fa, fab) == [t |-> "ap", fa |-> fa, fab |-> fab]

T_chain(tk, ta) == [t |-> "chain", tk |-> tk, ta |-> ta]

T_sequenceArray(ts) == [t |-> "sequenceArray", ts |-> ts]

\* concat: (x, y) => () => x().then((rx) => y().then((ry) => S.concat(rx, ry)))
T_getSemigroup_concat(S, x, y) ==
    T_chain([tk |-> "concat", S |-> S, y |-> y], x)

R_of(a, e) == a

\* T.traverseArrayWithIndex of Reader: (f) => (arr) => (r) => arr.map((a, i) => f(i, a)(r))
\* (array indices start at 0)
R_traverseArrayWithIndex(f, arr, e) ==
    [i \in 1 .. Len(arr) |-> App(ApplyK(f, <<i - 1, arr[i]>>), e)]

\* ------------------------------------------------------------------------
\* ReaderTask closures: what each combinator captures
\* ------------------------------------------------------------------------

\* A collaborator-supplied effect: (r) => the Task number id resolving to g(r).
UserEffect(id, g) == [op |-> "user", id |-> id, g |-> g]

FromTask(ma) == [op |-> "fromTask", ma |-> ma]

FromReader(ma) == [op |-> "fromReader", ma |-> ma]

FromIO(ma) == [op |-> "fromIO", ma |-> ma]

Ask == [op |-> "ask"]

Asks(f) == [op |-> "asks", f |-> f]

Map(f, fa) == [op |-> "map", f |-> f, fa |-> fa]

ApW(fa, fab) == [op |-> "apW", fa |-> fa, fab |-> fab]

Ap(fa, fab) == ApW(fa, fab)

Of(a) == [op |-> "of", a |-> a]

ChainW(f, fa) == [op |-> "chainW", f |-> f, fa |-> fa]

Chain(f, fa) == ChainW(f, fa)

ApplicativeSeq_Ap(fa, fab) == [op |-> "seqAp", fa |-> fa, fab |-> fab]

GetSemigroup_Concat(S, x, y) == [op |-> "concat", S |-> S, x |-> x, y |-> y]

TraverseArrayWithIndex(f, arr) == [op |-> "traverse", f |-> f, arr |-> arr]

\* ------------------------------------------------------------------------
\* effect-producing functions (values of type (a: A) => ReaderTask<R, B>)
\* ------------------------------------------------------------------------

\* collaborator-supplied: a => (r) => Task number id resolving to 10 * a + r + c
UserK(id, c) == [kf |-> "user", id |-> id, c |-> c]

\* collaborator-supplied, on records: the fields bound so far are summed
UserRecK(id, c) == [kf |-> "userRec", id |-> id, c |-> c]

\* collaborator-supplied, indexed: (i, a) => (r) => Task number i + 1
\* resolving to 100 * i + 10 * a + r
UserIdxK == [kf |-> "userIdx"]

OfK == [kf |-> "of"]

IdentityK == [kf |-> "identity"]

\* (f) => pipe(fa, map(f))
ApplicativeSeq_ap_f(fa, f) == Map(f, fa)

\* the callback of bindW forgetting the fields bound so far
bindW_f_dropsFields(name, f, a) ==
    Map([fn |-> "bind_", a |-> <<>>, name |-> name], ApplyK(f, a))

\* (a) => pipe(f(a), map((b) => bind_(a, name, b)))
bindW_f(name, f, a) ==
    Map([fn |-> "bind_", a |-> a, name |-> name], ApplyK(f, a))

\* (_, a) => f(a)
traverseArray_f(f, ia) == ApplyK(f, ia[2])

ApplyK(k, a) ==
    CASE k.kf = "user"      -> UserEffect(k.id, [fn |-> "add", n |-> 10 * a + k.c])
      [] k.kf = "userRec"   -> UserEffect(k.id, [fn |-> "add", n |-> 10 * SumRec(a) + k.c])
      [] k.kf = "userIdx"   -> UserEffect(a[1] + 1, [fn |-> "add", n |-> 100 * a[1] + 10 * a[2]])
      [] k.kf = "of"        -> Of(a)
      [] k.kf = "identity"  -> a
      [] k.kf = "seqAp"     -> ApplicativeSeq_ap_f(k.fa, a)
      [] k.kf = "bindW"     -> bindW_f(k.name, k.f, a)
      [] k.kf = "ignoreIdx" -> traverseArray_f(k.f, a)
      [] k.kf = "thenChain" -> ChainW(k.g, ApplyK(k.f, a))
      [] k.kf = "thenMap"   -> Map([fn |-> "extend", a |-> a, name |-> k.name], ApplyK(k.f, a))

\* ------------------------------------------------------------------------
\* the combinators' bodies, applied to an environment
\* ------------------------------------------------------------------------

fromTask(ma, e) == R_of(ma, e)

\* (ma) => flow(ma, T.of)
fromReader(ma, e) == T_of(ApplyFn(ma, e))

\* flow(T.fromIO, fromTask)
fromIO(ma, e) == fromTask(T_fromIO(ma), e)

\* () => T.of
ask(e) == T_of(e)

\* (f) => flow(T.of, T.map(f))
asks(f, e) == T_map(f, T_of(e))

\* map running fa against an empty environment
map_noEnvironment(f, fa, e) == T_map(f, App(fa, 0))

\* (f) => (fa) => flow(fa, T.map(f))
map(f, fa, e) == T_map(f, App(fa, e))

\* apW invoking fa(r) as soon as the environment is supplied
apW_eager(fa, fab, e) == T_ap(Started(App(fa, e)), App(fab, e))

\* apW waiting for fab before fa is started
apW_sequenced(fa, fab, e) ==
    T_chain([tk |-> "chainW", f |-> [kf |-> "seqAp", fa |-> fa], r |-> e], App(fab, e))

\* (fa) => (fab) => (r) => pipe(fab(r), T.ap(fa(r)))
apW(fa, fab, e) == T_ap(App(fa, e), App(fab, e))

ap(fa, fab, e) == apW(fa, fab, e)

\* (a) => () => T.of(a)
of(a, e) == T_of(a)

\* chainW that never calls f
chainW_skipsF(f, fa, e) == App(fa, e)

\* chainW invoking fa(r) once, when the environment is supplied, and
\* sharing that promise between the invocations of the Task it returns
chainW_memoized(f, fa, e) ==
    T_chain([tk |-> "chainW", f |-> f, r |-> e], Started(App(fa, e)))

\* (f) => (fa) => (r) => pipe(fa(r), T.chain((a) => f(a)(r)))
chainW(f, fa, e) == T_chain([tk |-> "chainW", f |-> f, r |-> e], App(fa, e))

\* the callback applying f(a) to an empty environment
chainW_f_noEnvironment(f, e, a) == App(ApplyK(f, a), 0)

\* the callback chainW hands to T.chain: (a) => f(a)(r)
chainW_f(f, e, a) == App(ApplyK(f, a), e)

chain(f, fa, e) == chainW(f, fa, e)

\* the sequential instance given the parallel ap
ApplicativeSeq_ap_parallel(fa, fab, e) == T_ap(App(fa, e), App(fab, e))

\* ap: (fa) => chain((f) => pipe(fa, map(f)))
ApplicativeSeq_ap(fa, fab, e) == chain([kf |-> "seqAp", fa |-> fa], fab, e)

\* concat with its arguments exchanged
getSemigroup_concat_flipped(S, x, y, e) == T_getSemigroup_concat(S, App(y, e), App(x, e))

\* R.getSemigroup(T.getSemigroup(S)).concat(x, y)(r)
getSemigroup_concat(S, x, y, e) == T_getSemigroup_concat(S, App(x, e), App(y, e))

Reverse(xs) == [i \in 1 .. Len(xs) |-> xs[Len(xs) + 1 - i]]

\* traverseArrayWithIndex collecting the results last to first
traverseArrayWithIndex_reversed(f, arr, e) ==
    T_sequenceArray(Reverse(R_traverseArrayWithIndex(f, arr, e)))

\* flow(R.traverseArrayWithIndex(f), R.map(T.sequenceArray))
traverseArrayWithIndex(f, arr, e) ==
    T_sequenceArray(R_traverseArrayWithIndex(f, arr, e))

App(fa, e) ==
    CASE fa.op = "user"       -> Leaf(fa.id, ApplyFn(fa.g, e))
      [] fa.op = "fromTask"   -> fromTask(fa.ma, e)
      [] fa.op = "fromReader" -> fromReader(fa.ma, e)
      [] fa.op = "fromIO"     -> fromIO(fa.ma, e)
      [] fa.op = "ask"        -> ask(e)
      [] fa.op = "asks"       -> asks(fa.f, e)
      [] fa.op = "map"        -> map(fa.f, fa.fa, e)
      [] fa.op = "apW"        -> ap(fa.fa, fa.fab, e)
      [] fa.op = "of"         -> of(fa.a, e)
      [] fa.op = "chainW"     -> chain(fa.f, fa.fa, e)
      [] fa.op = "seqAp"      -> ApplicativeSeq_ap(fa.fa, fa.fab, e)
      [] fa.op = "concat"     -> getSemigroup_concat(fa.S, fa.x, fa.y, e)
      [] fa.op = "traverse"   -> traverseArrayWithIndex(fa.f, fa.arr, e)

\* ------------------------------------------------------------------------
\* derived combinators
\* ------------------------------------------------------------------------

flatten(mma) == Chain(IdentityK, mma)

getMonoid_empty(M) == Of(M.empty)

Do == Of(<<>>)

bindTo(name, fa) == Map([fn |-> "bindTo_", name |-> name], fa)

bindW(name, f, fa) == ChainW([kf |-> "bindW", name |-> name, f |-> f], fa)

bind(name, f, fa) == bindW(name, f, fa)

\* flow(map((a) => (b) => bind_(a, name, b)), apW(fb))
apSW(name, fb, fa) == ApW(fb, Map([fn |-> "apS", name |-> name], fa))

apS(name, fb, fa) == apSW(name, fb, fa)

ApT == Of(<<>>)

tupled(a) == Map(tuple, a)

\* pipe(fas, map((a) => (b) => [...a, b]), apW(fb))
apTW(fb, fas) == ApW(fb, Map([fn |-> "apT"], fas))

apT(fb, fas) == apTW(fb, fas)

traverseArray(f, arr) == TraverseArrayWithIndex([kf |-> "ignoreIdx", f |-> f], arr)

sequenceArray(arr) == traverseArray(IdentityK, arr)

\* ------------------------------------------------------------------------
\* the Task collaborator at run time: promises
\* ------------------------------------------------------------------------

Val(v) == [k |-> "val", v |-> v]

Flat(ss) == IF ss = <<>> THEN <<>> ELSE Head(ss) \o Flat(Tail(ss))

\* What a callback handed to T.chain does with the first result.
TK(tk, a) ==
    CASE tk.tk = "chainW" -> chainW_f(tk.f, tk.r, a)
      [] tk.tk = "concat" -> T_map([fn |-> "concatL", S |-> tk.S, rx |-> a], tk.y)

\* The promise ta() returns.
\*   of:   Promise.resolve(a)          fromIO: Promise.resolve(ma())
\*   map:  fa().then(f)                chain:  ma().then((a) => f(a)())
\*   ap:   Promise.all([fab(), fa()]).then(([f, a]) => f(a))
\*   sequenceArray: Promise.all(arr.map((x) => x()))
Invoke(ta) ==
    CASE ta.t = "leaf"          -> [k |-> "leaf", id |-> ta.id, v |-> ta.v]
      [] ta.t = "started"       -> Invoke(ta.ta)
      [] ta.t = "of"            -> Val(ta.a)
      [] ta.t = "fromIO"        -> Val(ta.io.v)
      [] ta.t = "map"           -> [k |-> "then", p |-> Invoke(ta.ta), f |-> ta.f]
      [] ta.t = "ap"            -> [k |-> "then",
                                    p |-> [k |-> "all", ps |-> <<Invoke(ta.fab), Invoke(ta.fa)>>],
                                    f |-> [fn |-> "applyPair"]]
      [] ta.t = "chain"         -> [k |-> "thenT", p |-> Invoke(ta.ta), tk |-> ta.tk]
      [] ta.t = "sequenceArray" -> [k |-> "all",
                                    ps |-> [i \in 1 .. Len(ta.ts) |-> Invoke(ta.ts[i])]]

\* The collaborator computations ta() starts (and, for an IO, completes)
\* before it returns, in order.
InvokeEvents(ta) ==
    CASE ta.t = "leaf"          -> << <<"s", ta.id>> >>
      [] ta.t = "started"       -> <<>>
      [] ta.t = "of"            -> <<>>
      [] ta.t = "fromIO"        -> << <<"s", ta.io.io>>, <<"e", ta.io.io>> >>
      [] ta.t = "map"           -> InvokeEvents(ta.ta)
      [] ta.t = "ap"            -> InvokeEvents(ta.fab) \o InvokeEvents(ta.fa)
      [] ta.t = "chain"         -> InvokeEvents(ta.ta)
      [] ta.t = "sequenceArray" -> Flat([i \in 1 .. Len(ta.ts) |-> InvokeEvents(ta.ts[i])])

\* The collaborator computations started while the Task value ta was built.
ApplyEvents(ta) ==
    CASE ta.t = "started"       -> ApplyEvents(ta.ta) \o InvokeEvents(ta.ta)
      [] ta.t = "map"           -> ApplyEvents(ta.ta)
      [] ta.t = "ap"            -> ApplyEvents(ta.fab) \o ApplyEvents(ta.fa)
      [] ta.t = "chain"         -> ApplyEvents(ta.ta)
      [] ta.t = "sequenceArray" -> Flat([i \in 1 .. Len(ta.ts) |-> ApplyEvents(ta.ts[i])])
      [] OTHER                  -> <<>>

Kids(n) ==
    CASE n.k = "all"               -> n.ps
      [] n.k \in {"then", "thenT"} -> <<n.p>>
      [] OTHER                     -> <<>>

Paths(n) ==
    {<<>>} \cup UNION {{<<i>> \o s : s \in Paths(Kids(n)[i])} : i \in 1 .. Len(Kids(n))}

At(n, path) == IF path = <<>> THEN n ELSE At(Kids(n)[Head(path)], Tail(path))

Put(n, path, q) ==
    IF path = <<>> THEN q
    ELSE IF n.k = "all"
         THEN [n EXCEPT !.ps[Head(path)] = Put(n.ps[Head(path)], Tail(path), q)]
         ELSE [n EXCEPT !.p = Put(n.p, Tail(path), q)]

Ready(n) ==
    /\ n.k \in {"then", "thenT", "all"}
    /\ \A i \in 1 .. Len(Kids(n)) : Kids(n)[i].k = "val"

\* The task a ready thenT node invokes.
Next_task(n) == TK(n.tk, n.p.v)

Reaction(n) ==
    CASE n.k = "then"  -> Val(ApplyFn(n.f, n.p.v))
      [] n.k = "thenT" -> Invoke(Next_task(n))
      [] n.k = "all"   -> Val([i \in 1 .. Len(n.ps) |-> n.ps[i].v])

ReactionEvents(n) ==
    IF n.k = "thenT"
    THEN ApplyEvents(Next_task(n)) \o InvokeEvents(Next_task(n))
    ELSE <<>>

\* ------------------------------------------------------------------------
\* the inputs
\* ------------------------------------------------------------------------

MaxBinds == 2

NameOf(i) == <<"a", "b", "c", "d", "e", "f">>[i]

\* effects m, by kind
Effect(j, id, c) ==
    CASE j = 1 -> UserEffect(id, [fn |-> "add", n |-> c])
      [] j = 2 -> Of(c)
      [] j = 3 -> Asks([fn |-> "add", n |-> c])
      [] j = 4 -> FromIO(IOLeaf(id, c))
      [] j = 5 -> FromTask(Leaf(id, c))
      [] j = 6 -> FromReader([fn |-> "add", n |-> c])
      [] j = 7 -> Ask

EffectKinds == 1 .. 7

HasLeaf(j) == j \in {1, 4, 5}

\* effect-producing functions f, by kind
Kleisli(j, id, c) ==
    CASE j = 1 -> UserK(id, c)
      [] j = 2 -> OfK

KleisliKinds == 1 .. 2

\* pipe(seed, bind(NameOf(1), f1), ..., bind(NameOf(n), fn))
BindChain(n, c, seed) ==
    IF n = 0 THEN seed
    ELSE bind(NameOf(n), UserRecK(n, c), BindChain(n - 1, c, seed))

\* the same with chain((a) => map((b) => a extended with name := b)(f(a)))
ExplicitChain(n, c, seed) ==
    IF n = 0 THEN seed
    ELSE Chain([kf |-> "thenMap", name |-> NameOf(n), f |-> UserRecK(n, c)],
               ExplicitChain(n - 1, c, seed))

Arrays == UNION {[1 .. n -> Vals] : n \in 0 .. MaxLen}

\* ------------------------------------------------------------------------
\* the state machine
\* ------------------------------------------------------------------------

NoTask == [t |-> "none"]

NoPromise == [k |-> "none"]

Scenario(l, p, in) == law = l /\ prog = p /\ inp = in


\* law "ap": run 1 is ApplicativeSeq.ap(fa)(fab), run 2 is ap(fa)(fab); fab is
\* computation 1 (resolving to x => x + n + r), fa is computation 2.
ScenarioAp ==
    \E n \in Vals, c \in Vals :
        LET fab == UserEffect(1, [fn |-> "mkAdd", n |-> n])
            fa  == UserEffect(2, [fn |-> "add", n |-> c])
        IN  Scenario("ap", <<ApplicativeSeq_Ap(fa, fab), Ap(fa, fab)>>,
                     [leaves |-> {1, 2}, n |-> n, c |-> c])

\* laws "mapPar", "mapSeq": run 1 is map(f)(fa), run 2 is ap(fa)(of(f)) of
\* ApplicativePar, of ApplicativeSeq.
ScenarioMap ==
    \E n \in Vals, c \in Vals, jm \in EffectKinds :
        LET f  == [fn |-> "add", n |-> n]
            fa == Effect(jm, 1, c)
        IN  \/ Scenario("mapPar", <<Map(f, fa), Ap(fa, Of(f))>>,
                        [leaves |-> IF HasLeaf(jm) THEN {1} ELSE {}, n |-> n, fa |-> fa])
            \/ Scenario("mapSeq", <<Map(f, fa), ApplicativeSeq_Ap(fa, Of(f))>>,
                        [leaves |-> IF HasLeaf(jm) THEN {1} ELSE {}, n |-> n, fa |-> fa])

\* law "chain": both runs are chain(f)(ma), f(a) = (r) => computation 2
\* resolving to 10 * a + r + c.
ScenarioChain ==
    \E jm \in EffectKinds, cm \in Vals, c \in Vals :
        LET ma == Effect(jm, 1, cm)
        IN  Scenario("chain", <<Chain(UserK(2, c), ma), Chain(UserK(2, c), ma)>>,
                     [leaves |-> IF HasLeaf(jm) THEN {1, 2} ELSE {2}, ma |-> ma, c |-> c])

\* chain(f)(of(a)) and f(a)
ScenarioLeftIdentity ==
    \E a \in Vals, jf \in KleisliKinds, c \in Vals :
        LET f == Kleisli(jf, 1, c)
        IN  Scenario("leftIdentity", <<Chain(f, Of(a)), ApplyK(f, a)>>,
                     [leaves |-> {1}])

\* chain(of)(m) and m
ScenarioRightIdentity ==
    \E jm \in EffectKinds, c \in Vals :
        LET m == Effect(jm, 1, c)
        IN  Scenario("rightIdentity", <<Chain(OfK, m), m>>, [leaves |-> {1}])

\* chain(g)(chain(f)(m)) and chain((a) => chain(g)(f(a)))(m)
ScenarioAssociativity ==
    \E jm \in EffectKinds, c \in Vals, jf \in KleisliKinds, jg \in KleisliKinds, cf \in Vals :
        LET m == Effect(jm, 1, c)
            f == Kleisli(jf, 2, cf)
            g == Kleisli(jg, 3, cf)
        IN  Scenario("associativity",
                     <<Chain(g, Chain(f, m)),
                       Chain([kf |-> "thenChain", f |-> f, g |-> g], m)>>,
                     [leaves |-> {1, 2, 3}])

\* law "traverse": run 1 is traverseArrayWithIndex(f)(arr), run 2 is
\* traverseArray(g)(arr).
ScenarioTraverse ==
    \E arr \in Arrays :
        Scenario("traverse",
                 <<TraverseArrayWithIndex(UserIdxK, arr), traverseArray(UserK(1, 0), arr)>>,
                 [leaves |-> 1 .. Len(arr), arr |-> arr])

\* law "sequence": run 1 is sequenceArray of collaborator effects, run 2 is
\* sequenceArray([of(arr[0]), ...]).
ScenarioSequence ==
    \E arr \in Arrays :
        Scenario("sequence",
                 <<sequenceArray([i \in 1 .. Len(arr) |->
                                     UserEffect(i, [fn |-> "add", n |-> arr[i]])]),
                   sequenceArray([i \in 1 .. Len(arr) |-> Of(arr[i])])>>,
                 [leaves |-> 1 .. Len(arr), arr |-> arr])

SeedName == "z"

SeedId == MaxBinds + 1

\* law "bind": run 1 is n binds from Do or from bindTo(SeedName), run 2 the
\* explicit chain and map composition from the same seed.
ScenarioBind ==
    \E n \in 1 .. MaxBinds, c \in Vals, fromDo \in BOOLEAN :
        LET m    == UserEffect(SeedId, [fn |-> "add", n |-> c])
            seed == IF fromDo THEN Do ELSE bindTo(SeedName, m)
        IN  Scenario("bind", <<BindChain(n, c, seed), ExplicitChain(n, c, seed)>>,
                     [leaves |-> (1 .. n) \cup (IF fromDo THEN {} ELSE {SeedId}),
                      n |-> n, c |-> c, fromDo |-> fromDo])

\* law "semigroup": both runs are getSemigroup(S).concat(x, y).
ScenarioSemigroup ==
    \E cx \in Vals, cy \in Vals :
        LET x == UserEffect(1, [fn |-> "single", n |-> cx])
            y == UserEffect(2, [fn |-> "single", n |-> cy])
        IN  Scenario("semigroup",
                     <<GetSemigroup_Concat(SeqMonoid, x, y), GetSemigroup_Concat(SeqMonoid, x, y)>>,
                     [leaves |-> {1, 2}, cx |-> cx, cy |-> cy])

\* laws "monoidLeft", "monoidRight": run 1 is concat(empty, x), concat(x, empty);
\* run 2 is x.
ScenarioMonoid ==
    \E cx \in Vals :
        LET x     == UserEffect(1, [fn |-> "single", n |-> cx])
            empty == getMonoid_empty(SeqMonoid)
        IN  \/ Scenario("monoidLeft", <<GetSemigroup_Concat(SeqMonoid, empty, x), x>>,
                        [leaves |-> {1}, cx |-> cx])
            \/ Scenario("monoidRight", <<GetSemigroup_Concat(SeqMonoid, x, empty), x>>,
                        [leaves |-> {1}, cx |-> cx])

\* the effects run twice, by combinator
Combined(j, c) ==
    LET u1 == UserEffect(1, [fn |-> "add", n |-> c])
        u2 == UserEffect(2, [fn |-> "add", n |-> c])
        uf == UserEffect(1, [fn |-> "mkAdd", n |-> c])
        s1 == UserEffect(1, [fn |-> "single", n |-> c])
        s2 == UserEffect(2, [fn |-> "single", n |-> c])
    IN  CASE j = 1 -> Map([fn |-> "add", n |-> 1], Map([fn |-> "add", n |-> 1], ApW(u2, uf)))
          [] j = 2 -> Ap(u2, uf)
          [] j = 3 -> ApplicativeSeq_Ap(u2, uf)
          [] j = 4 -> bind("b", UserRecK(2, c), bindTo("a", u1))
          [] j = 5 -> apS("b", u2, bindTo("a", u1))
          [] j = 6 -> apT(u2, tupled(u1))
          [] j = 7 -> traverseArray(IdentityK, <<u1, u2>>)
          [] j = 8 -> GetSemigroup_Concat(SeqMonoid, s1, s2)
          [] j = 9 -> flatten(Of(Chain(UserK(2, c), u1)))

Combinators == 1 .. 9

\* law "twice": both runs are the same effect.
ScenarioTwice ==
    \E j \in Combinators, c \in Vals :
        Scenario("twice", <<Combined(j, c), Combined(j, c)>>, [leaves |-> {1, 2}, j |-> j])

Init ==
    /\ r \in Envs
    /\ pc = [i \in Runs |-> "built"]
    /\ task = [i \in Runs |-> NoTask]
    /\ prom = [i \in Runs |-> NoPromise]
    /\ log = [i \in Runs |-> <<>>]
    /\ \/ ScenarioAp
       \/ ScenarioMap
       \/ ScenarioChain
       \/ ScenarioLeftIdentity
       \/ ScenarioRightIdentity
       \/ ScenarioAssociativity
       \/ ScenarioTraverse
       \/ ScenarioSequence
       \/ ScenarioBind
       \/ ScenarioSemigroup
       \/ ScenarioMonoid
       \/ ScenarioTwice

\* pc "built" -> "applied": the effect is applied to the environment.
ApplyEnv(i) ==
    /\ pc[i] = "built"
    /\ task' = [task EXCEPT ![i] = App(prog[i], r)]
    /\ log' = [log EXCEPT ![i] = @ \o ApplyEvents(task'[i])]
    /\ pc' = [pc EXCEPT ![i] = "applied"]
    /\ UNCHANGED <<law, r, prog, inp, prom>>

\* The second run invokes the Task the first application returned.
Reuse ==
    /\ law \in {"twice", "chain", "semigroup"}
    /\ pc[1] # "built"
    /\ pc[2] = "built"
    /\ task' = [task EXCEPT ![2] = task[1]]
    /\ pc' = [pc EXCEPT ![2] = "applied"]
    /\ UNCHANGED <<law, r, prog, inp, prom, log>>

\* pc "applied" -> "running": the Task is invoked.
InvokeTask(i) ==
    /\ pc[i] = "applied"
    /\ prom' = [prom EXCEPT ![i] = Invoke(task[i])]
    /\ log' = [log EXCEPT ![i] = @ \o InvokeEvents(task[i])]
    /\ pc' = [pc EXCEPT ![i] = "running"]
    /\ UNCHANGED <<law, r, prog, inp, task>>

\* A collaborator computation in flight completes.
Settle(i, path) ==
    /\ pc[i] = "running"
    /\ path \in Paths(prom[i])
    /\ At(prom[i], path).k = "leaf"
    /\ prom' = [prom EXCEPT ![i] = Put(@, path, Val(At(prom[i], path).v))]
    /\ log' = [log EXCEPT ![i] = Append(@, <<"e", At(prom[i], path).id>>)]
    /\ UNCHANGED <<law, r, prog, inp, pc, task>>

\* A promise whose inputs are all settled runs its reaction.
React(i, path) ==
    /\ pc[i] = "running"
    /\ path \in Paths(prom[i])
    /\ Ready(At(prom[i], path))
    /\ prom' = [prom EXCEPT ![i] = Put(@, path, Reaction(At(prom[i], path)))]
    /\ log' = [log EXCEPT ![i] = @ \o ReactionEvents(At(prom[i], path))]
    /\ UNCHANGED <<law, r, prog, inp, pc, task>>

Next ==
    \/ \E i \in Runs : ApplyEnv(i)
    \/ Reuse
    \/ \E i \in Runs : InvokeTask(i)
    \/ \E i \in Runs : \E path \in Paths(prom[i]) : Settle(i, path)
    \/ \E i \in Runs : \E path \in Paths(prom[i]) : React(i, path)

Spec == Init /\ [][Next]_vars

Done(i) == pc[i] = "running" /\ prom[i].k = "val"

Result(i) == prom[i].v

\* ------------------------------------------------------------------------
\* reading the log
\* ------------------------------------------------------------------------

Count(lg, ev) == Cardinality({j \in DOMAIN lg : lg[j] = ev})

Occurs(lg, ev) == \E j \in DOMAIN lg : lg[j] = ev

\* ev1 occurs, and before any occurrence of ev2
Before(lg, ev1, ev2) ==
    \E j \in DOMAIN lg : lg[j] = ev1 /\ \A m \in 1 .. j : lg[m] # ev2

InFlight(lg, id) == Count(lg, <<"s", id>>) > Count(lg, <<"e", id>>)

\* ------------------------------------------------------------------------
\* the claims
\* ------------------------------------------------------------------------

\* C1: running ApplicativeSeq.ap(fa)(fab)(r) (run 1 of law "ap": fab is
\* computation 1, fa is computation 2, independent of each other) starts fa's
\* computation only after fab's has completed, and the two are never in
\* flight at once.
C1_SeqApStartsArgumentAfterFunction ==
    law = "ap" =>
        /\ Occurs(log[1], <<"s", 2>>) => Before(log[1], <<"e", 1>>, <<"s", 2>>)
        /\ ~(InFlight(log[1], 1) /\ InFlight(log[1], 2))
        /\ pc[1] = "running" => Occurs(log[1], <<"s", 1>>)
        /\ Done(1) => log[1] = << <<"s", 1>>, <<"e", 1>>, <<"s", 2>>, <<"e", 2>> >>

C1_Witness ==
    /\ law = "ap"
    /\ pc[1] = "running"
    /\ InFlight(log[1], 2)
    /\ Occurs(log[1], <<"e", 1>>)

\* C2: running apW(fa)(fab)(r) (run 2 of law "ap") starts both computations
\* before either completes, and under every order of completion resolves,
\* once both have completed, to (result of fab(r))(result of fa(r)), both
\* taken at the same r.
C2_ParApStartsBothThenCombines ==
    law = "ap" =>
        /\ pc[2] = "running" =>
              /\ Count(log[2], <<"s", 1>>) = 1
              /\ Count(log[2], <<"s", 2>>) = 1
              /\ \A id \in {1, 2} : \A id2 \in {1, 2} :
                    Occurs(log[2], <<"e", id>>) =>
                        Before(log[2], <<"s", id2>>, <<"e", id>>)
        /\ Done(2) =>
              /\ Count(log[2], <<"e", 1>>) = 1
              /\ Count(log[2], <<"e", 2>>) = 1
              /\ Len(log[2]) = 4
              /\ Result(2) = (r + inp.c) + (r + inp.n)

C2_Witness ==
    /\ law = "ap"
    /\ Done(2)
    /\ log[2] = << <<"s", 1>>, <<"s", 2>>, <<"e", 2>>, <<"e", 1>> >>
    /\ r = 1

\* What an effect of kind Effect(j, id, c) resolves to at environment e.
Expected(m, e) ==
    CASE m.op = "user"       -> e + m.g.n
      [] m.op = "of"         -> m.a
      [] m.op = "asks"       -> e + m.f.n
      [] m.op = "fromIO"     -> m.ma.v
      [] m.op = "fromTask"   -> m.ma.v
      [] m.op = "fromReader" -> e + m.ma.n
      [] m.op = "ask"        -> e

\* C3: running chain(f)(ma)(r) (law "chain") runs ma(r) to completion with
\* result a and only then starts the computation of f(a), applied to the
\* same r; the overall result is that of f(a)(r), here 10 * a + r + c.
C3_ChainRunsSecondAfterFirstOnSameEnv ==
    law = "chain" =>
        \A i \in Runs :
            /\ (1 \in inp.leaves /\ Occurs(log[i], <<"s", 2>>)) =>
                   Before(log[i], <<"e", 1>>, <<"s", 2>>)
            /\ ~(InFlight(log[i], 1) /\ InFlight(log[i], 2))
            /\ Done(i) =>
                   /\ Count(log[i], <<"s", 2>>) = 1
                   /\ Result(i) = 10 * Expected(inp.ma, r) + r + inp.c

C3_Witness ==
    /\ law = "chain"
    /\ inp.ma.op = "user"
    /\ r = 1
    /\ Done(1)
    /\ log[1] = << <<"s", 1>>, <<"e", 1>>, <<"s", 2>>, <<"e", 2>> >>

\* C4: traverseArrayWithIndex(f)(arr)(r) resolves to a sequence as long as arr
\* whose i-th element is the result of f(i, arr[i])(r), whatever the order in
\* which the computations complete; likewise traverseArray (no index) and
\* sequenceArray (the effects themselves).
C4_TraverseKeepsInputOrder ==
    /\ law = "traverse" =>
          /\ Done(1) =>
                /\ Len(Result(1)) = Len(inp.arr)
                /\ \A j \in 1 .. Len(inp.arr) :
                      Result(1)[j] = 100 * (j - 1) + 10 * inp.arr[j] + r
          /\ Done(2) =>
                /\ Len(Result(2)) = Len(inp.arr)
                /\ \A j \in 1 .. Len(inp.arr) : Result(2)[j] = 10 * inp.arr[j] + r
    /\ law = "sequence" =>
          /\ Done(1) =>
                /\ Len(Result(1)) = Len(inp.arr)
                /\ \A j \in 1 .. Len(inp.arr) : Result(1)[j] = r + inp.arr[j]
          /\ Done(2) => Result(2) = inp.arr

C4_Witness ==
    /\ law = "traverse"
    /\ Len(inp.arr) >= 2
    /\ inp.arr[1] # inp.arr[2]
    /\ Done(1)
    /\ Before(log[1], <<"e", 2>>, <<"e", 1>>)

\* C5: run against the same r, chain(f)(of(a)) and f(a) resolve to the same
\* value (left identity), chain(of)(m) and m do (right identity), and
\* chain(g)(chain(f)(m)) and chain(a => chain(g)(f(a)))(m) do (associativity).
C5_MonadLaws ==
    (law \in {"leftIdentity", "rightIdentity", "associativity"} /\ Done(1) /\ Done(2)) =>
        Result(1) = Result(2)

C5_Witness ==
    /\ law = "associativity"
    /\ Done(1)
    /\ Done(2)
    /\ r = 1
    /\ Count(log[1], <<"e", 2>>) = 1
    /\ Count(log[2], <<"e", 3>>) = 1

\* C6: map(f)(fa)(r) and ap(fa)(of(f))(r) resolve to the same value, f of
\* fa(r)'s result, for ApplicativePar and for ApplicativeSeq; and the two
\* instances' ap resolve to the same value and start the same computations.
C6_MapAgreesWithApOfBothInstances ==
    /\ (law \in {"mapPar", "mapSeq"} /\ Done(1) /\ Done(2)) =>
          /\ Result(1) = Result(2)
          /\ Result(1) = Expected(inp.fa, r) + inp.n
    /\ (law = "ap" /\ Done(1) /\ Done(2)) =>
          /\ Result(1) = Result(2)
          /\ \A id \in inp.leaves :
                /\ Count(log[1], <<"s", id>>) = 1
                /\ Count(log[2], <<"s", id>>) = 1

C6_Witness ==
    /\ law = "mapSeq"
    /\ inp.fa.op = "user"
    /\ r = 1
    /\ Done(1)
    /\ Done(2)

RECURSIVE ExpectedRecord(_, _, _, _)
\* The record n binds build: field NameOf(j) is f_j of the record before it.
ExpectedRecord(n, c, e, seed) ==
    IF n = 0 THEN seed
    ELSE LET a == ExpectedRecord(n - 1, c, e, seed)
         IN  [m \in (DOMAIN a) \cup {NameOf(n)} |->
                 IF m \in DOMAIN a THEN a[m] ELSE e + 10 * SumRec(a) + c]

RECURSIVE ExpectedLog(_)
ExpectedLog(n) ==
    IF n = 0 THEN <<>> ELSE ExpectedLog(n - 1) \o << <<"s", n>>, <<"e", n>> >>

\* C7: n binds with distinct names from Do or bindTo(name) resolve to the
\* record of the explicit chain and map composition: exactly the bound names,
\* earlier fields kept, each f_j applied to the record of the fields before
\* it, the field effects run one after another in bind order.
C7_BindEqualsExplicitChainMap ==
    law = "bind" =>
        /\ \A i \in Runs : \A id \in inp.leaves : \A id2 \in inp.leaves :
              id # id2 => ~(InFlight(log[i], id) /\ InFlight(log[i], id2))
        /\ (Done(1) /\ Done(2)) =>
              /\ Result(1) = Result(2)
              /\ log[1] = log[2]
        /\ Done(1) =>
              /\ Result(1) = ExpectedRecord(inp.n, inp.c, r,
                                 IF inp.fromDo THEN <<>>
                                 ELSE [m \in {SeedName} |-> r + inp.c])
              /\ log[1] = (IF inp.fromDo THEN <<>>
                           ELSE << <<"s", SeedId>>, <<"e", SeedId>> >>) \o ExpectedLog(inp.n)

C7_Witness ==
    /\ law = "bind"
    /\ inp.n = 2
    /\ ~inp.fromDo
    /\ r = 1
    /\ Done(1)
    /\ Done(2)
    /\ DOMAIN Result(1) = {SeedName, NameOf(1), NameOf(2)}

\* C8: an effect run twice with the same environment, the runs one after the
\* other or overlapping, the second from a new application or from the Task
\* of the first: each run starts every collaborator computation of the effect
\* exactly once and completes on its own computations, so two starts in total.
C8_TwoRunsAreIndependent ==
    law \in {"twice", "chain", "semigroup"} =>
        /\ \A i \in Runs : \A id \in inp.leaves :
              /\ Count(log[i], <<"s", id>>) <= 1
              /\ Done(i) =>
                    /\ Count(log[i], <<"s", id>>) = 1
                    /\ Count(log[i], <<"e", id>>) = 1
        /\ (Done(1) /\ Done(2)) =>
              /\ Result(1) = Result(2)
              /\ \A id \in inp.leaves :
                    Count(log[1], <<"s", id>>) + Count(log[2], <<"s", id>>) = 2

C8_Witness ==
    /\ law = "twice"
    /\ task[2] = task[1]
    /\ prog[1].op = "chainW"
    /\ Occurs(log[1], <<"e", 1>>)
    /\ InFlight(log[1], 2)
    /\ InFlight(log[2], 1)
    /\ ~Occurs(log[2], <<"s", 2>>)

\* C9: until the Task returned by applying an effect to an environment is
\* invoked, no collaborator computation has been started and no promise
\* exists: building the effect and applying it start nothing.
C9_NothingStartsBeforeInvocation ==
    \A i \in Runs :
        pc[i] \in {"built", "applied"} => (log[i] = <<>> /\ prom[i].k = "none")

C9_Witness ==
    /\ pc[1] = "applied"
    /\ task[1].t = "ap"
    /\ pc[2] = "running"
    /\ log[2] # <<>>

\* C10: getSemigroup(S).concat(x, y)(r) resolves to S.concat(result of x(r),
\* result of y(r)), in that order; getMonoid(M).empty is of(M.empty), and
\* concat(empty, x)(r) and concat(x, empty)(r) resolve to the result of x(r).
C10_SemigroupCombinesPointwise ==
    /\ law = "semigroup" =>
          \A i \in Runs : Done(i) => Result(i) = <<r + inp.cx, r + inp.cy>>
    /\ law \in {"monoidLeft", "monoidRight"} =>
          /\ App(prog[1].x, r) = T_of(SeqMonoid.empty)
                 \/ App(prog[1].y, r) = T_of(SeqMonoid.empty)
          /\ Done(1) => Result(1) = <<r + inp.cx>>
          /\ (Done(1) /\ Done(2)) => Result(1) = Result(2)

C10_Witness ==
    /\ law = "semigroup"
    /\ inp.cx # inp.cy
    /\ r = 1
    /\ Done(1)

====
